---- MODULE Spec2Model ----
(***************************************************************************)
(* Model of librealsense's frame_source (src/src/source.cpp): the          *)
(* frame_queue_size option, the per-kind archive map, the replaceable      *)
(* callback slot and the init / reset / flush lifecycle, run by several    *)
(* threads.  The archive (pool), the frame holder and option_base are      *)
(* declared outside source.cpp; their behaviour is taken from the design   *)
(* document and kept in the definitions marked "archive:" / "option_base:".*)
(***************************************************************************)
EXTENDS Integers, Sequences, FiniteSets, TLC

\* ------------------------------------------------------------------ bounds
\* Capture threads allocate and publish frames; control threads run the
\* lifecycle and configuration calls.
MaxProducers == 1
MaxControllers == 1
MaxFrames == 2
MaxInits == 2
MaxTargets == 2
\* Values handed to set() are multiples of 1/Scale; they range from
\* -InputMargin to RangeMax + InputMargin.
Scale == 2
InputMargin == 2

\* ------------------------------------------------------- program constants
RangeMin == 0
RangeMax == 32
RangeStep == 1
DefaultSize == 16

Producers == 1..MaxProducers
Controllers == (MaxProducers + 1)..(MaxProducers + MaxControllers)
Threads == Producers \cup Controllers
NoThread == 0
FrameIds == 1..MaxFrames
NoFrame == 0
Targets == 1..MaxTargets
NULL == 0
ABSENT == -1
PoolIds == 1..(2 * MaxInits)

\* rs2_extension_type values used by the callers of alloc_frame; std::map
\* iterates its keys in this order.
VIDEO == 1
COMPOSITE == 2
MOTION == 3
Kinds == {VIDEO, COMPOSITE, MOTION}
Sensors == {1}
NoSensor == 0

FloatInputs == ((0 - InputMargin) * Scale)..((RangeMax + InputMargin) * Scale)

VARIABLES
    _max_publish_list_size,  \* std::atomic<uint32_t>
    option,                  \* last call on the published-size option
    _callback,               \* frame_callback_ptr: NULL or a target
    _callback_mutex,         \* owner of the mutex, NoThread when free
    _archive,                \* kind -> ABSENT (no key), NULL or a pool
    inits,                   \* number of init() calls so far (names the pools)
    pools,                   \* pool -> archive bookkeeping
    frames,                  \* frame -> owner, ownership, deliveries
    errors,                  \* number of LOG_ERROR lines written
    fault,                   \* call and outcome of undefined behaviour, if any
    pc,                      \* thread -> position in the operation it runs
    frame,                   \* thread -> the frame_holder it has
    callback,                \* thread -> pool of invoke_callback's token
    ref,                     \* thread -> rs2_frame* ref of invoke_callback
    token,                   \* thread -> pool of a holder from begin_callback()
    arg,                     \* thread -> argument of the running operation
    it                       \* thread -> key the running loop has come to

option_vars == <<_max_publish_list_size, option>>

shared_vars == <<_callback, _callback_mutex, _archive, inits, pools, frames,
                 errors, fault>>

local_vars == <<pc, frame, callback, ref, token, arg, it>>

source_vars == <<shared_vars, local_vars>>

vars == <<option_vars, shared_vars, local_vars>>

\* ------------------------------------------------------ frame_queue_size
\* option_base: value lies in [min, max] and on the step grid.
is_valid(value) ==
    /\ value >= RangeMin * Scale
    /\ value <= RangeMax * Scale
    /\ (value - RangeMin * Scale) % (RangeStep * Scale) = 0

\* static_cast<uint32_t>(float): the fraction is dropped (truncation toward
\* zero).  Every value that reaches the cast is at most RangeMax, far below
\* 2^32, so the width of the cell never cuts the result.
Trunc(value) ==
    IF value >= 0 THEN value \div Scale ELSE 0 - ((0 - value) \div Scale)

ToUint32_off_by_one(value) == Trunc(value) + 1

ToUint32(value) == Trunc(value)

\* static_cast<float>(uint32_t)
ToFloat(n) == n * Scale

frame_queue_size_set_store_first(value) ==
    /\ _max_publish_list_size' = ToUint32(value)
    /\ option' = [op |-> "set", value |-> value,
                  res |-> IF is_valid(value) THEN "ok"
                          ELSE "invalid_value_exception",
                  before |-> _max_publish_list_size]

frame_queue_size_set(value) ==
    IF ~is_valid(value)
    THEN /\ option' = [op |-> "set", value |-> value,
                       res |-> "invalid_value_exception",
                       before |-> _max_publish_list_size]
         /\ UNCHANGED _max_publish_list_size
    ELSE /\ _max_publish_list_size' = ToUint32(value)
         /\ option' = [op |-> "set", value |-> value, res |-> "ok",
                       before |-> _max_publish_list_size]

frame_queue_size_query ==
    /\ option' = [op |-> "query", value |-> ToFloat(_max_publish_list_size),
                  res |-> "ok", before |-> _max_publish_list_size]
    /\ UNCHANGED _max_publish_list_size

\* get_published_size_option: the option is bound to _max_publish_list_size
\* with range {0, 32, 1, 16}.
OptionSet == \E value \in FloatInputs :
    /\ frame_queue_size_set(value)
    /\ UNCHANGED source_vars

OptionQuery ==
    /\ frame_queue_size_query
    /\ UNCHANGED source_vars

\* ------------------------------------------------------------ frame_source
NoPool == 0

\* Addresses of capacity cells: the frame_source's member
\* _max_publish_list_size, or none.
CapacityCell == "&_max_publish_list_size"
NoCell == "nullptr"

\* archive: a pool's bookkeeping: live frames, active callback tokens, sensor,
\* and the address of the capacity cell it was created with.
NewPool == [state |-> "alive", live |-> 0, active |-> 0, sensor |-> NoSensor,
            max_frame_queue_size |-> NoCell]

UnbornPool == [state |-> "unborn", live |-> 0, active |-> 0,
               sensor |-> NoSensor, max_frame_queue_size |-> NoCell]

\* archive: the capacity a pool observes is what the cell at its address
\* holds at that moment.
archive_capacity(p) ==
    CASE pools[p].max_frame_queue_size = CapacityCell -> _max_publish_list_size

\* archive: a frame: the kind it was allocated as, its owning pool, who holds
\* it, whether log_callback_start ran, the targets it was handed to and who
\* released it.
FreeFrame == [type |-> 0, owner |-> NoPool, state |-> "free",
              logged |-> FALSE, delivered |-> <<>>, released_by |-> <<>>]

NoFault == [op |-> "none", outcome |-> "none"]

\* frame_source::frame_source
Init ==
    /\ _max_publish_list_size = DefaultSize
    /\ option = [op |-> "none", value |-> 0, res |-> "none",
                 before |-> DefaultSize]
    /\ _callback = NULL
    /\ _callback_mutex = NoThread
    /\ _archive = [k \in Kinds |-> ABSENT]
    /\ inits = 0
    /\ pools = [p \in PoolIds |-> UnbornPool]
    /\ frames = [f \in FrameIds |-> FreeFrame]
    /\ errors = 0
    /\ fault = NoFault
    /\ pc = [t \in Threads |-> "idle"]
    /\ frame = [t \in Threads |-> NoFrame]
    /\ callback = [t \in Threads |-> NoPool]
    /\ ref = [t \in Threads |-> NoFrame]
    /\ token = [t \in Threads |-> NoPool]
    /\ arg = [t \in Threads |-> 0]
    /\ it = [t \in Threads |-> 0]

\* The outcomes of undefined behaviour (null or dangling dereference, racing
\* access): the process dies, or it runs on with corrupted memory.  Either
\* way nothing more is said about the run.
UBOutcomes == {"segfault", "corrupt"}

Running == fault = NoFault

Idle(t) == Running /\ pc[t] = "idle"

At(t, label) == Running /\ pc[t] = label

Goto(t, label) == pc' = [pc EXCEPT ![t] = label]

\* The call returns to its caller.
Return(t) ==
    /\ pc' = [pc EXCEPT ![t] = "idle"]
    /\ arg' = [arg EXCEPT ![t] = 0]
    /\ it' = [it EXCEPT ![t] = 0]

\* The call leaves by the exception `exc`; the caller has it until it has
\* handled it.
Throw(t, exc, a) ==
    /\ pc' = [pc EXCEPT ![t] = exc]
    /\ arg' = [arg EXCEPT ![t] = a]
    /\ it' = [it EXCEPT ![t] = 0]

Exceptions == {"wrong_api_call_sequence_exception", "user_exception"}

caller_catch(t) ==
    /\ Running /\ pc[t] \in Exceptions
    /\ Return(t)
    /\ UNCHANGED <<option_vars, shared_vars, frame, callback, ref, token>>

\* Undefined behaviour in the call `op` of thread t.
Undefined(t, op) ==
    /\ \E o \in UBOutcomes : fault' = [op |-> op, outcome |-> o]
    /\ pc' = [pc EXCEPT ![t] = "undefined"]

IsPool(x) == x \in PoolIds

\* std::lock_guard<std::mutex> lock(_callback_mutex)
lock_guard(t) ==
    /\ _callback_mutex = NoThread
    /\ _callback_mutex' = t

\* archive: a holder increments the pool's active-callback counter on
\* acquisition and decrements it on release.
begin_callback_token(ps, p) == [ps EXCEPT ![p].active = @ + 1]

end_callback_token(ps, p) == [ps EXCEPT ![p].active = @ - 1]

\* archive: tearing a pool down waits for the active-callback counter to
\* reach zero ...
can_release_archive_nowait(p) == TRUE

can_release_archive(p) == pools[p].active = 0

\* ... then releases all storage and resets the bookkeeping to empty.
release_archive(ps, p) ==
    [ps EXCEPT ![p] = [state |-> "destroyed", live |-> 0, active |-> 0,
                       sensor |-> NoSensor, max_frame_queue_size |-> NoCell]]

\* Dropping the owning pointer held in an _archive entry.
drop_entry(ps, e) == IF IsPool(e) THEN release_archive(ps, e) ELSE ps

can_drop_entry(e) == IsPool(e) => can_release_archive(e)

\* make_archive(type, ...): the pool created for `type` by the current init.
make_archive(type) == 2 * (inits - 1) + type

\* The keys of _archive from `from` on, in map order; 0 when there is none.
NextKey(from) ==
    IF \E k \in Kinds : k >= from /\ _archive[k] # ABSENT
    THEN CHOOSE k \in Kinds :
            /\ k >= from /\ _archive[k] # ABSENT
            /\ \A j \in Kinds : (j >= from /\ _archive[j] # ABSENT) => k <= j
    ELSE 0

\* ---- init
init_enter(t) ==
    /\ Idle(t)
    /\ inits < MaxInits
    /\ lock_guard(t)
    /\ inits' = inits + 1
    /\ Goto(t, "init_loop")
    /\ it' = [it EXCEPT ![t] = VIDEO]
    /\ UNCHANGED <<option_vars, _callback, _archive, pools, frames, errors,
                   fault, frame, callback, ref, token, arg>>

\* The pools are created without the address of the source's cell.
init_loop_private_cell(t) ==
    /\ At(t, "init_loop")
    /\ can_drop_entry(_archive[it[t]])
    /\ _archive' = [_archive EXCEPT ![it[t]] = make_archive(it[t])]
    /\ pools' = [drop_entry(pools, _archive[it[t]])
                    EXCEPT ![make_archive(it[t])] = NewPool]
    /\ IF it[t] = VIDEO
       THEN /\ it' = [it EXCEPT ![t] = COMPOSITE]
            /\ UNCHANGED <<pc, arg, _callback_mutex>>
       ELSE /\ Return(t)
            /\ _callback_mutex' = NoThread
    /\ UNCHANGED <<option_vars, _callback, inits, frames, errors, fault,
                   frame, callback, ref, token>>

\* _archive[type] = make_archive(type, &_max_publish_list_size, ...) for
\* VIDEO, then COMPOSITE; the lock is released when the loop ends.
init_loop(t) ==
    /\ At(t, "init_loop")
    /\ can_drop_entry(_archive[it[t]])
    /\ _archive' = [_archive EXCEPT ![it[t]] = make_archive(it[t])]
    /\ pools' = [drop_entry(pools, _archive[it[t]])
                    EXCEPT ![make_archive(it[t])] =
                        [NewPool EXCEPT !.max_frame_queue_size = CapacityCell]]
    /\ IF it[t] = VIDEO
       THEN /\ it' = [it EXCEPT ![t] = COMPOSITE]
            /\ UNCHANGED <<pc, arg, _callback_mutex>>
       ELSE /\ Return(t)
            /\ _callback_mutex' = NoThread
    /\ UNCHANGED <<option_vars, _callback, inits, frames, errors, fault,
                   frame, callback, ref, token>>

\* ---- reset
reset_enter(t) ==
    /\ Idle(t)
    /\ lock_guard(t)
    /\ Goto(t, "reset_callback")
    /\ UNCHANGED <<option_vars, _callback, _archive, inits, pools, frames,
                   errors, fault, frame, callback, ref, token, arg, it>>

\* _callback.reset()
reset_callback(t) ==
    /\ At(t, "reset_callback")
    /\ _callback' = NULL
    /\ Goto(t, "reset_loop")
    /\ it' = [it EXCEPT ![t] = VIDEO]
    /\ UNCHANGED <<option_vars, _callback_mutex, _archive, inits, pools,
                   frames, errors, fault, frame, callback, ref, token, arg>>

\* for (auto&& kvp : _archive) kvp.second.reset(); the lock is released
\* when the loop ends.
reset_loop(t) ==
    /\ At(t, "reset_loop")
    /\ IF NextKey(it[t]) = 0
       THEN /\ Return(t)
            /\ _callback_mutex' = NoThread
            /\ UNCHANGED <<_archive, pools>>
       ELSE /\ can_drop_entry(_archive[NextKey(it[t])])
            /\ _archive' = [_archive EXCEPT ![NextKey(it[t])] = NULL]
            /\ pools' = drop_entry(pools, _archive[NextKey(it[t])])
            /\ it' = [it EXCEPT ![t] = NextKey(it[t]) + 1]
            /\ UNCHANGED <<pc, arg, _callback_mutex>>
    /\ UNCHANGED <<option_vars, _callback, inits, frames, errors, fault,
                   frame, callback, ref, token>>

\* ---- set_callback
set_callback_enter(t, cb) ==
    /\ Idle(t)
    /\ lock_guard(t)
    /\ Goto(t, "set_callback")
    /\ arg' = [arg EXCEPT ![t] = cb]
    /\ UNCHANGED <<option_vars, _callback, _archive, inits, pools, frames,
                   errors, fault, frame, callback, ref, token, it>>

\* _callback = callback; the lock is released on return.
set_callback_store(t) ==
    /\ At(t, "set_callback")
    /\ _callback' = arg[t]
    /\ _callback_mutex' = NoThread
    /\ Return(t)
    /\ UNCHANGED <<option_vars, _archive, inits, pools, frames, errors, fault,
                   frame, callback, ref, token>>

\* ---- alloc_frame
FreeFrameId == CHOOSE f \in FrameIds :
    /\ frames[f].state = "free"
    /\ \A g \in FrameIds : frames[g].state = "free" => f <= g

\* archive: alloc_and_track admits the frame (allocation proceeds even at
\* capacity) and returns a handle with reference count 1.
alloc_and_track(ps, p) == [ps EXCEPT ![p].live = @ + 1]

\* archive: the last handle released: the pool reclaims the slot.
unpublish_frame(ps, p) == [ps EXCEPT ![p].live = @ - 1]

\* A lookup through operator[], which inserts a null entry for a missing key.
alloc_frame_subscript(t, type) ==
    /\ Idle(t)
    /\ frame[t] = NoFrame
    /\ \E f \in FrameIds : frames[f].state = "free"
    /\ _archive[type] # NULL
    /\ IF _archive[type] = ABSENT
       THEN /\ Throw(t, "wrong_api_call_sequence_exception", type)
            /\ _archive' = [_archive EXCEPT ![type] = NULL]
            /\ UNCHANGED <<pools, frames, frame>>
       ELSE /\ pools' = alloc_and_track(pools, _archive[type])
            /\ frames' = [frames EXCEPT ![FreeFrameId] =
                            [FreeFrame EXCEPT !.type = type,
                                              !.owner = _archive[type],
                                              !.state = "held"]]
            /\ frame' = [frame EXCEPT ![t] = FreeFrameId]
            /\ UNCHANGED <<pc, arg, it, _archive>>
    /\ UNCHANGED <<option_vars, _callback, _callback_mutex, inits,
                   errors, fault, callback, ref, token>>

\* find(type): a missing key throws; otherwise the entry is dereferenced and
\* the caller keeps the frame in a frame_holder.
alloc_frame(t, type) ==
    /\ Idle(t)
    /\ frame[t] = NoFrame
    /\ \E f \in FrameIds : frames[f].state = "free"
    /\ _archive[type] # NULL
    /\ IF _archive[type] = ABSENT
       THEN /\ Throw(t, "wrong_api_call_sequence_exception", type)
            /\ UNCHANGED <<pools, frames, frame>>
       ELSE /\ pools' = alloc_and_track(pools, _archive[type])
            /\ frames' = [frames EXCEPT ![FreeFrameId] =
                            [FreeFrame EXCEPT !.type = type,
                                              !.owner = _archive[type],
                                              !.state = "held"]]
            /\ frame' = [frame EXCEPT ![t] = FreeFrameId]
            /\ UNCHANGED <<pc, arg, it>>
    /\ UNCHANGED <<option_vars, _callback, _callback_mutex, _archive, inits,
                   errors, fault, callback, ref, token>>

\* it->second is a null pointer (the entry was cleared by reset).
alloc_frame_null(t, type) ==
    /\ Idle(t)
    /\ frame[t] = NoFrame
    /\ _archive[type] = NULL
    /\ Undefined(t, "alloc_frame")
    /\ arg' = [arg EXCEPT ![t] = type]
    /\ UNCHANGED <<option_vars, _callback, _callback_mutex, _archive, inits,
                   pools, frames, errors, frame, callback, ref, token, it>>

\* ---- begin_callback
\* _archive[RS2_EXTENSION_TYPE_VIDEO_FRAME]->begin_callback()
begin_callback(t) ==
    /\ Idle(t)
    /\ token[t] = NoPool
    /\ IsPool(_archive[VIDEO])
    /\ pools' = begin_callback_token(pools, _archive[VIDEO])
    /\ token' = [token EXCEPT ![t] = _archive[VIDEO]]
    /\ UNCHANGED <<option_vars, _callback, _callback_mutex, _archive, inits,
                   frames, errors, fault, pc, frame, callback, ref, arg, it>>

\* operator[] inserts a null entry when the key is missing; the null entry
\* is then dereferenced.
begin_callback_null(t) ==
    /\ Idle(t)
    /\ token[t] = NoPool
    /\ ~IsPool(_archive[VIDEO])
    /\ _archive' = [_archive EXCEPT ![VIDEO] = NULL]
    /\ Undefined(t, "begin_callback")
    /\ UNCHANGED <<option_vars, _callback, _callback_mutex, inits, pools,
                   frames, errors, frame, callback, ref, token, arg, it>>

\* The caller lets go of the callback_invocation_holder.
end_callback(t) ==
    /\ Idle(t)
    /\ token[t] # NoPool
    /\ pools' = end_callback_token(pools, token[t])
    /\ token' = [token EXCEPT ![t] = NoPool]
    /\ UNCHANGED <<option_vars, _callback, _callback_mutex, _archive, inits,
                   frames, errors, fault, pc, frame, callback, ref, arg, it>>

\* ---- set_sensor
set_sensor_enter(t, s) ==
    /\ Idle(t)
    /\ Goto(t, "set_sensor_loop")
    /\ arg' = [arg EXCEPT ![t] = s]
    /\ it' = [it EXCEPT ![t] = VIDEO]
    /\ UNCHANGED <<option_vars, shared_vars, frame, callback, ref, token>>

\* for (auto&& a : _archive) a.second->set_sensor(s)
set_sensor_loop(t) ==
    /\ At(t, "set_sensor_loop")
    /\ IF NextKey(it[t]) = 0
       THEN /\ Return(t)
            /\ UNCHANGED pools
       ELSE /\ IsPool(_archive[NextKey(it[t])])
            /\ pools' = [pools EXCEPT ![_archive[NextKey(it[t])]].sensor = arg[t]]
            /\ it' = [it EXCEPT ![t] = NextKey(it[t]) + 1]
            /\ UNCHANGED <<pc, arg>>
    /\ UNCHANGED <<option_vars, _callback, _callback_mutex, _archive, inits,
                   frames, errors, fault, frame, callback, ref, token>>

\* a.second is a null pointer (the entry was cleared by reset).
set_sensor_null(t) ==
    /\ At(t, "set_sensor_loop")
    /\ NextKey(it[t]) # 0
    /\ _archive[NextKey(it[t])] = NULL
    /\ Undefined(t, "set_sensor")
    /\ UNCHANGED <<option_vars, _callback, _callback_mutex, _archive, inits,
                   pools, frames, errors, frame, callback, ref, token, arg, it>>

\* ---- flush
flush_enter(t) ==
    /\ Idle(t)
    /\ Goto(t, "flush_loop")
    /\ it' = [it EXCEPT ![t] = VIDEO]
    /\ UNCHANGED <<option_vars, shared_vars, frame, callback, ref, token, arg>>

\* archive: flush returns once the pool has no live frame left.
archive_flush_done(p) == pools[p].live = 0

\* The entry is not tested: flush is called through a cleared entry.
flush_loop_unchecked(t) ==
    /\ At(t, "flush_loop")
    /\ IF NextKey(it[t]) = 0
       THEN /\ Return(t)
            /\ UNCHANGED fault
       ELSE IF IsPool(_archive[NextKey(it[t])])
            THEN /\ archive_flush_done(_archive[NextKey(it[t])])
                 /\ it' = [it EXCEPT ![t] = NextKey(it[t]) + 1]
                 /\ UNCHANGED <<pc, arg, fault>>
            ELSE /\ Undefined(t, "flush")
                 /\ UNCHANGED <<arg, it>>
    /\ UNCHANGED <<option_vars, _callback, _callback_mutex, _archive, inits,
                   pools, frames, errors, frame, callback, ref, token>>

\* for (auto&& kvp : _archive) if (kvp.second) kvp.second->flush()
flush_loop(t) ==
    /\ At(t, "flush_loop")
    /\ IF NextKey(it[t]) = 0
       THEN Return(t)
       ELSE /\ IsPool(_archive[NextKey(it[t])])
                => archive_flush_done(_archive[NextKey(it[t])])
            /\ it' = [it EXCEPT ![t] = NextKey(it[t]) + 1]
            /\ UNCHANGED <<pc, arg>>
    /\ UNCHANGED <<option_vars, shared_vars, frame, callback, ref, token>>

\* ---- unsynchronised access to _archive
\* Thread u is inside the locked body of init or reset, rewriting _archive.
ArchiveWriter(u) == pc[u] \in {"init_loop", "reset_loop"}

\* Thread t is in (or about to make) a call that reads _archive without the
\* lock: alloc_frame, begin_callback, set_sensor, flush.
ArchiveReader(t) ==
    \/ pc[t] \in {"set_sensor_loop", "flush_loop"}
    \/ pc[t] = "idle" /\ t \in Producers

\* A read of the map while another thread rewrites it is a data race.
archive_race(t) ==
    /\ Running
    /\ ArchiveReader(t)
    /\ \E u \in Threads \ {t} : ArchiveWriter(u)
    /\ Undefined(t, "data_race")
    /\ UNCHANGED <<option_vars, _callback, _callback_mutex, _archive, inits,
                   pools, frames, errors, frame, callback, ref, token, arg, it>>

\* ---- invoke_callback
\* The frame a handle refers to was freed with its pool.
Discarded(f) == f # NoFrame /\ pools[frames[f].owner].state = "destroyed"

\* The handle is not tested: the empty handle is dereferenced.
invoke_callback_empty_unchecked(t) ==
    /\ Idle(t)
    /\ frame[t] = NoFrame
    /\ Undefined(t, "invoke_callback")
    /\ UNCHANGED <<option_vars, _callback, _callback_mutex, _archive, inits,
                   pools, frames, errors, frame, callback, ref, token, arg, it>>

\* if (frame) is false: nothing happens.
invoke_callback_empty(t) ==
    /\ Idle(t)
    /\ frame[t] = NoFrame
    /\ UNCHANGED vars

\* The token is taken from the VIDEO pool, whatever pool owns the frame.
invoke_callback_begin_fixed_pool(t) ==
    /\ Idle(t)
    /\ frame[t] # NoFrame
    /\ ~Discarded(frame[t])
    /\ IsPool(_archive[VIDEO])
    /\ pools' = begin_callback_token(pools, _archive[VIDEO])
    /\ callback' = [callback EXCEPT ![t] = _archive[VIDEO]]
    /\ Goto(t, "log_callback_start")
    /\ UNCHANGED <<option_vars, _callback, _callback_mutex, _archive, inits,
                   frames, errors, fault, frame, ref, token, arg, it>>

\* auto callback = frame.frame->get()->get_owner()->begin_callback()
invoke_callback_begin(t) ==
    /\ Idle(t)
    /\ frame[t] # NoFrame
    /\ ~Discarded(frame[t])
    /\ pools' = begin_callback_token(pools, frames[frame[t]].owner)
    /\ callback' = [callback EXCEPT ![t] = frames[frame[t]].owner]
    /\ Goto(t, "log_callback_start")
    /\ UNCHANGED <<option_vars, _callback, _callback_mutex, _archive, inits,
                   frames, errors, fault, frame, ref, token, arg, it>>

\* The frame and its owner were freed when the pool was torn down: the
\* dereference is a use after free.
invoke_callback_dangling(t) ==
    /\ Idle(t)
    /\ Discarded(frame[t])
    /\ Undefined(t, "invoke_callback")
    /\ UNCHANGED <<option_vars, _callback, _callback_mutex, _archive, inits,
                   pools, frames, errors, frame, callback, ref, token, arg, it>>

\* The frame is handed on without emptying the holder.
invoke_callback_test_copy(t) ==
    /\ At(t, "log_callback_start")
    /\ frames' = [frames EXCEPT ![frame[t]].logged = TRUE]
    /\ IF _callback # NULL
       THEN /\ ref' = [ref EXCEPT ![t] = frame[t]]
            /\ Goto(t, "on_frame")
            /\ UNCHANGED frame
       ELSE /\ Goto(t, "release_token")
            /\ UNCHANGED <<frame, ref>>
    /\ UNCHANGED <<option_vars, _callback, _callback_mutex, _archive, inits,
                   pools, errors, fault, callback, token, arg, it>>

\* frame.frame->log_callback_start(_ts->get_time()); if (_callback)
\* { rs2_frame* ref = nullptr; std::swap(frame.frame, ref); ...
\* _callback is read without the lock.
invoke_callback_test(t) ==
    /\ At(t, "log_callback_start")
    /\ frames' = [frames EXCEPT ![frame[t]].logged = TRUE]
    /\ IF _callback # NULL
       THEN /\ ref' = [ref EXCEPT ![t] = frame[t]]
            /\ frame' = [frame EXCEPT ![t] = NoFrame]
            /\ Goto(t, "on_frame")
       ELSE /\ Goto(t, "release_token")
            /\ UNCHANGED <<frame, ref>>
    /\ UNCHANGED <<option_vars, _callback, _callback_mutex, _archive, inits,
                   pools, errors, fault, callback, token, arg, it>>

\* ... _callback->on_frame(ref); }  _callback is read again, without the
\* lock, and the user callback starts with the frame as its own.
invoke_callback_on_frame(t) ==
    /\ At(t, "on_frame")
    /\ _callback # NULL
    /\ frames' = [frames EXCEPT ![ref[t]].state = "user",
                                ![ref[t]].delivered = Append(@, _callback)]
    /\ Goto(t, "user_callback")
    /\ UNCHANGED <<option_vars, _callback, _callback_mutex, _archive, inits,
                   pools, errors, fault, frame, callback, ref, token, arg, it>>

\* set_callback(nullptr) or reset() ran since the test: the call goes through
\* a null pointer.
invoke_callback_on_frame_null(t) ==
    /\ At(t, "on_frame")
    /\ _callback = NULL
    /\ Undefined(t, "invoke_callback")
    /\ UNCHANGED <<option_vars, _callback, _callback_mutex, _archive, inits,
                   pools, frames, errors, frame, callback, ref, token, arg, it>>

\* ---- the user's code: it releases the frame it was given, in the callback
\* or later, or keeps it; the callback returns or throws.
release_frame(f, who) ==
    /\ frames' = [frames EXCEPT ![f].state = "released",
                                ![f].released_by = Append(@, who)]
    /\ pools' = unpublish_frame(pools, frames[f].owner)

user_release(f) ==
    /\ Running
    /\ frames[f].state = "user"
    /\ ~Discarded(f)
    /\ release_frame(f, "user")
    /\ UNCHANGED <<option_vars, _callback, _callback_mutex, _archive, inits,
                   errors, fault, local_vars>>

\* The user releases a frame it kept until after its pool was torn down.
user_release_dangling(f) ==
    /\ Running
    /\ frames[f].state = "user"
    /\ Discarded(f)
    /\ \E o \in UBOutcomes : fault' = [op |-> "release", outcome |-> o]
    /\ UNCHANGED <<option_vars, _callback, _callback_mutex, _archive, inits,
                   pools, frames, errors, local_vars>>

user_callback_return(t) ==
    /\ At(t, "user_callback")
    /\ Goto(t, "release_token")
    /\ UNCHANGED <<option_vars, shared_vars, frame, callback, ref, token, arg, it>>

user_callback_throw(t) ==
    /\ At(t, "user_callback")
    /\ Goto(t, "catch")
    /\ UNCHANGED <<option_vars, shared_vars, frame, callback, ref, token, arg, it>>

\* The target whose on_frame thread t is running.
Executing(t) == frames[ref[t]].delivered[Len(frames[ref[t]].delivered)]

\* on_frame is called through the member _callback; invoke_callback keeps no
\* shared_ptr of its own.  Once set_callback or reset has dropped the
\* member's reference, the target is destroyed unless the user holds another
\* reference: the callback then runs in a destroyed object.
user_callback_target_released(t) ==
    /\ At(t, "user_callback")
    /\ _callback # Executing(t)
    /\ Undefined(t, "on_frame")
    /\ UNCHANGED <<option_vars, _callback, _callback_mutex, _archive, inits,
                   pools, frames, errors, frame, callback, ref, token, arg, it>>

\* The fault is not caught: it unwinds through invoke_callback (the token
\* and the holder are destroyed on the way) to the caller.
invoke_callback_rethrow(t) ==
    /\ At(t, "catch")
    /\ pools' = end_callback_token(pools, callback[t])
    /\ callback' = [callback EXCEPT ![t] = NoPool]
    /\ ref' = [ref EXCEPT ![t] = NoFrame]
    /\ Throw(t, "user_exception", 0)
    /\ UNCHANGED <<option_vars, _callback, _callback_mutex, _archive, inits,
                   frames, errors, fault, frame, token>>

\* catch(...) { LOG_ERROR("Exception was thrown during user callback!"); }
invoke_callback_catch(t) ==
    /\ At(t, "catch")
    /\ errors' = errors + 1
    /\ Goto(t, "release_token")
    /\ UNCHANGED <<option_vars, _callback, _callback_mutex, _archive, inits,
                   pools, frames, fault, frame, callback, ref, token, arg, it>>

\* The holder goes away without giving its token back.
invoke_callback_release_token_leak(t) ==
    /\ At(t, "release_token")
    /\ callback' = [callback EXCEPT ![t] = NoPool]
    /\ Goto(t, "release_frame")
    /\ UNCHANGED <<option_vars, _callback, _callback_mutex, _archive, inits,
                   pools, frames, errors, fault, frame, ref, token, arg, it>>

\* End of the if block: `callback` is destroyed and gives its token back.
invoke_callback_release_token(t) ==
    /\ At(t, "release_token")
    /\ pools' = end_callback_token(pools, callback[t])
    /\ callback' = [callback EXCEPT ![t] = NoPool]
    /\ Goto(t, "release_frame")
    /\ UNCHANGED <<option_vars, _callback, _callback_mutex, _archive, inits,
                   frames, errors, fault, frame, ref, token, arg, it>>

\* Return without the holder releasing the frame it still holds.
invoke_callback_return_leak(t) ==
    /\ At(t, "release_frame")
    /\ ~Discarded(frame[t])
    /\ frame' = [frame EXCEPT ![t] = NoFrame]
    /\ ref' = [ref EXCEPT ![t] = NoFrame]
    /\ Return(t)
    /\ UNCHANGED <<option_vars, _callback, _callback_mutex, _archive, inits,
                   pools, frames, errors, fault, callback, token>>

\* Return: the frame_holder parameter is destroyed and releases the frame it
\* still holds.
invoke_callback_return(t) ==
    /\ At(t, "release_frame")
    /\ ~Discarded(frame[t])
    /\ IF frame[t] # NoFrame
       THEN release_frame(frame[t], "holder")
       ELSE UNCHANGED <<frames, pools>>
    /\ frame' = [frame EXCEPT ![t] = NoFrame]
    /\ ref' = [ref EXCEPT ![t] = NoFrame]
    /\ Return(t)
    /\ UNCHANGED <<option_vars, _callback, _callback_mutex, _archive, inits,
                   errors, fault, callback, token>>

\* The pool was torn down between the token's release and the holder's: the
\* holder releases a freed frame.
invoke_callback_return_dangling(t) ==
    /\ At(t, "release_frame")
    /\ Discarded(frame[t])
    /\ Undefined(t, "invoke_callback")
    /\ UNCHANGED <<option_vars, _callback, _callback_mutex, _archive, inits,
                   pools, frames, errors, frame, callback, ref, token, arg, it>>

\* ---------------------------------------------------------- specifications
Next ==
    \/ \E t \in Controllers : init_enter(t)
    \/ \E t \in Controllers : init_loop(t)
    \/ \E t \in Controllers : reset_enter(t)
    \/ \E t \in Controllers : reset_callback(t)
    \/ \E t \in Controllers : reset_loop(t)
    \/ \E t \in Controllers, cb \in Targets \cup {NULL} : set_callback_enter(t, cb)
    \/ \E t \in Controllers : set_callback_store(t)
    \/ \E t \in Controllers, s \in Sensors : set_sensor_enter(t, s)
    \/ \E t \in Controllers : set_sensor_loop(t)
    \/ \E t \in Controllers : set_sensor_null(t)
    \/ \E t \in Controllers : flush_enter(t)
    \/ \E t \in Controllers : flush_loop(t)
    \/ \E t \in Producers, type \in Kinds : alloc_frame(t, type)
    \/ \E t \in Producers, type \in Kinds : alloc_frame_null(t, type)
    \/ \E t \in Producers : begin_callback(t)
    \/ \E t \in Producers : begin_callback_null(t)
    \/ \E t \in Producers : end_callback(t)
    \/ \E t \in Threads : archive_race(t)
    \/ \E t \in Threads : caller_catch(t)
    \/ \E t \in Producers : invoke_callback_empty(t)
    \/ \E t \in Producers : invoke_callback_begin(t)
    \/ \E t \in Producers : invoke_callback_dangling(t)
    \/ \E t \in Producers : invoke_callback_test(t)
    \/ \E t \in Producers : invoke_callback_on_frame(t)
    \/ \E t \in Producers : invoke_callback_on_frame_null(t)
    \/ \E f \in FrameIds : user_release(f)
    \/ \E f \in FrameIds : user_release_dangling(f)
    \/ \E t \in Producers : user_callback_return(t)
    \/ \E t \in Producers : user_callback_throw(t)
    \/ \E t \in Producers : user_callback_target_released(t)
    \/ \E t \in Producers : invoke_callback_catch(t)
    \/ \E t \in Producers : invoke_callback_release_token(t)
    \/ \E t \in Producers : invoke_callback_return(t)
    \/ \E t \in Producers : invoke_callback_return_dangling(t)

Spec == Init /\ [][Next]_vars

NextOption == OptionSet \/ OptionQuery

SpecOption == Init /\ [][NextOption]_vars

\* ---- the capacity option on a running source
\* The values a configuration thread hands to set() while frames are live:
\* 0 and 1.
CapacityInputs == {0, Scale}

\* set(value) that also cuts every pool's live frames down to the new
\* capacity.
SetCapacity_evict ==
    \E value \in CapacityInputs :
        /\ Running
        /\ frame_queue_size_set(value)
        /\ pools' = [p \in PoolIds |->
                        IF pools[p].live > _max_publish_list_size'
                        THEN [pools[p] EXCEPT !.live = _max_publish_list_size']
                        ELSE pools[p]]
        /\ UNCHANGED <<_callback, _callback_mutex, _archive, inits, frames,
                       errors, fault, local_vars>>

\* set(value) on the option returned by get_published_size_option(); the
\* store into the atomic cell is one step and takes no lock.
SetCapacity ==
    \E value \in CapacityInputs :
        /\ Running
        /\ frame_queue_size_set(value)
        /\ UNCHANGED source_vars

\* A capture thread that allocates and publishes frames, a control thread
\* that runs init, reset and set_callback, and a configuration thread that
\* sets the capacity.
NextCapacity ==
    \/ \E t \in Controllers : init_enter(t)
    \/ \E t \in Controllers : init_loop(t)
    \/ \E t \in Controllers : reset_enter(t)
    \/ \E t \in Controllers : reset_callback(t)
    \/ \E t \in Controllers : reset_loop(t)
    \/ \E t \in Controllers, cb \in Targets \cup {NULL} : set_callback_enter(t, cb)
    \/ \E t \in Controllers : set_callback_store(t)
    \/ \E t \in Producers, type \in Kinds : alloc_frame(t, type)
    \/ \E t \in Producers, type \in Kinds : alloc_frame_null(t, type)
    \/ \E t \in Threads : archive_race(t)
    \/ \E t \in Threads : caller_catch(t)
    \/ \E t \in Producers : invoke_callback_empty(t)
    \/ \E t \in Producers : invoke_callback_begin(t)
    \/ \E t \in Producers : invoke_callback_dangling(t)
    \/ \E t \in Producers : invoke_callback_test(t)
    \/ \E t \in Producers : invoke_callback_on_frame(t)
    \/ \E t \in Producers : invoke_callback_on_frame_null(t)
    \/ \E f \in FrameIds : user_release(f)
    \/ \E f \in FrameIds : user_release_dangling(f)
    \/ \E t \in Producers : user_callback_return(t)
    \/ \E t \in Producers : user_callback_throw(t)
    \/ \E t \in Producers : user_callback_target_released(t)
    \/ \E t \in Producers : invoke_callback_catch(t)
    \/ \E t \in Producers : invoke_callback_release_token(t)
    \/ \E t \in Producers : invoke_callback_return(t)
    \/ \E t \in Producers : invoke_callback_return_dangling(t)
    \/ SetCapacity

SpecCapacity == Init /\ [][NextCapacity]_vars

\* ---- the end-to-end run: allocate, publish, flush, reset
\* A capture thread that allocates frames and publishes them, the user's
\* callback, and a control thread that runs init, set_callback, flush and
\* reset.
NextEndToEnd ==
    \/ \E t \in Controllers : init_enter(t)
    \/ \E t \in Controllers : init_loop(t)
    \/ \E t \in Controllers : reset_enter(t)
    \/ \E t \in Controllers : reset_callback(t)
    \/ \E t \in Controllers : reset_loop(t)
    \/ \E t \in Controllers, cb \in Targets \cup {NULL} : set_callback_enter(t, cb)
    \/ \E t \in Controllers : set_callback_store(t)
    \/ \E t \in Controllers : flush_enter(t)
    \/ \E t \in Controllers : flush_loop(t)
    \/ \E t \in Producers, type \in Kinds : alloc_frame(t, type)
    \/ \E t \in Producers, type \in Kinds : alloc_frame_null(t, type)
    \/ \E t \in Threads : archive_race(t)
    \/ \E t \in Threads : caller_catch(t)
    \/ \E t \in Producers : invoke_callback_empty(t)
    \/ \E t \in Producers : invoke_callback_begin(t)
    \/ \E t \in Producers : invoke_callback_dangling(t)
    \/ \E t \in Producers : invoke_callback_test(t)
    \/ \E t \in Producers : invoke_callback_on_frame(t)
    \/ \E t \in Producers : invoke_callback_on_frame_null(t)
    \/ \E f \in FrameIds : user_release(f)
    \/ \E f \in FrameIds : user_release_dangling(f)
    \/ \E t \in Producers : user_callback_return(t)
    \/ \E t \in Producers : user_callback_throw(t)
    \/ \E t \in Producers : user_callback_target_released(t)
    \/ \E t \in Producers : invoke_callback_catch(t)
    \/ \E t \in Producers : invoke_callback_release_token(t)
    \/ \E t \in Producers : invoke_callback_return(t)
    \/ \E t \in Producers : invoke_callback_return_dangling(t)

\* Scheduling: a thread that is inside a call and not blocked goes on (into
\* undefined behaviour, where that is what comes next), the capture thread
\* publishes the frame it has allocated, and the user's callback comes to an
\* end and releases the frame it was given.
Progress ==
    /\ \A t \in Controllers :
          /\ WF_vars(init_loop(t))
          /\ WF_vars(reset_callback(t))
          /\ WF_vars(reset_loop(t))
          /\ WF_vars(set_callback_store(t))
          /\ WF_vars(flush_loop(t))
    /\ \A t \in Producers :
          /\ WF_vars(caller_catch(t))
          /\ WF_vars(invoke_callback_begin(t) \/ invoke_callback_dangling(t))
          /\ WF_vars(invoke_callback_test(t))
          /\ WF_vars(invoke_callback_on_frame(t)
                        \/ invoke_callback_on_frame_null(t))
          /\ WF_vars(user_callback_return(t) \/ user_callback_throw(t))
          /\ WF_vars(invoke_callback_catch(t))
          /\ WF_vars(invoke_callback_release_token(t))
          /\ WF_vars(invoke_callback_return(t)
                        \/ invoke_callback_return_dangling(t))
    /\ \A f \in FrameIds : WF_vars(user_release(f))

SpecEndToEnd == Init /\ [][NextEndToEnd]_vars /\ Progress

\* ------------------------------------------------------------------ claims
Delivery == {VIDEO, COMPOSITE}

\* init has filled both entries and no reset has cleared them.
Ready == \A k \in Delivery : IsPool(_archive[k])

\* No init or reset is under way.
Quiescent ==
    \A u \in Controllers :
        pc[u] \notin {"init_loop", "reset_callback", "reset_loop"}

\* reset has returned, having cleared the entries, and no init has refilled
\* them.
AfterReset == Quiescent /\ \A k \in Delivery : _archive[k] = NULL

BeforeInit == \A k \in Kinds : _archive[k] = ABSENT

\* invoke_callback went through a null _callback after emptying its holder.
NullTargetInvoked(t) ==
    /\ pc[t] = "undefined"
    /\ fault.op = "invoke_callback"
    /\ ref[t] # NoFrame
    /\ frame[t] = NoFrame

\* C1: every delivered frame is delivered through exactly one target that a
\* set_callback installed, and invoke_callback never invokes an absent (null)
\* target after it has given up its handle.
C1_OneInstalledTarget ==
    /\ \A f \in FrameIds :
          /\ Len(frames[f].delivered) <= 1
          /\ \A i \in 1..Len(frames[f].delivered) :
                frames[f].delivered[i] \in Targets
    /\ \A t \in Producers : ~NullTargetInvoked(t)

\* Thread t takes the step that reads _callback (the test, or the call).
ReadsTarget(t) ==
    /\ pc[t] \in {"log_callback_start", "on_frame"}
    /\ pc'[t] # pc[t]

\* C2: invoke_callback reads the callback target while it holds
\* _callback_mutex, and does not hold the mutex while the user callback runs.
C2_TargetReadUnderLock ==
    /\ [][\A t \in Producers : ReadsTarget(t) => _callback_mutex = t]_vars
    /\ [](\A t \in Producers :
            pc[t] \in {"user_callback", "catch"} => _callback_mutex # t)

\* The frame the invocation of thread t is about.
InFlightFrame(t) == IF ref[t] # NoFrame THEN ref[t] ELSE frame[t]

\* C3: while an invoke_callback holds its callback token, the token's pool
\* has not been torn down, its _archive entry has not been cleared (so a
\* reset that runs meanwhile has not completed), and the frame the
\* invocation is about has not been discarded.
C3_ResetWaitsForToken ==
    \A t \in Producers : callback[t] # NoPool =>
        /\ pools[callback[t]].state = "alive"
        /\ \E k \in Delivery : _archive[k] = callback[t]
        /\ ~Discarded(InFlightFrame(t))
        /\ \A u \in Controllers :
              pc[u] = "reset_loop" => NextKey(it[u]) # 0

\* A reset is blocked on the pool whose token a running user callback holds.
C3_Witness ==
    \E t \in Producers, u \in Controllers :
        /\ pc[t] = "user_callback"
        /\ pc[u] = "reset_loop"
        /\ NextKey(it[u]) # 0
        /\ _archive[NextKey(it[u])] = callback[t]
        /\ fault = NoFault

\* C4: the holder is empty from before the target is invoked; a frame is
\* handed to a callback at most once and, once handed over, is never released
\* by the holder nor released twice.
C4_SoleOwnership ==
    /\ \A t \in Producers :
          pc[t] \in {"on_frame", "user_callback", "catch"} =>
              frame[t] = NoFrame /\ ref[t] # NoFrame
    /\ \A f \in FrameIds :
          /\ Len(frames[f].delivered) <= 1
          /\ Len(frames[f].released_by) <= 1
          /\ frames[f].delivered # <<>> =>
                \A i \in 1..Len(frames[f].released_by) :
                    frames[f].released_by[i] = "user"
          /\ \A t \in Producers :
                frames[f].delivered # <<>> => frame[t] # f

\* A frame was delivered, its invoke_callback has returned, and the user has
\* released it.
C4_Witness ==
    \E f \in FrameIds :
        /\ frames[f].delivered # <<>>
        /\ frames[f].released_by = <<"user">>
        /\ \A t \in Producers : pc[t] = "idle" /\ ref[t] = NoFrame
        /\ fault = NoFault

\* The tokens held on pool p.
TokensOn(p) ==
    Cardinality({t \in Threads : callback[t] = p})
        + Cardinality({t \in Threads : token[t] = p})

\* Thread t leaves the catch block.
LeavesCatch(t) == pc[t] = "catch" /\ pc'[t] # "catch"

\* C5: a fault of the user callback never reaches the caller of
\* invoke_callback; the pool's active-callback count is the number of tokens
\* held, so the token of a faulted invocation is given back; and after the
\* catch invoke_callback goes on exactly where a returning callback goes on,
\* with only the error log changed.
C5_CallbackFaultSuppressed ==
    /\ [](\A t \in Threads :
            /\ pc[t] # "user_exception"
            /\ pc[t] = "idle" => callback[t] = NoPool)
    /\ [](\A p \in PoolIds :
            pools[p].state = "alive" => pools[p].active = TokensOn(p))
    /\ [][\A t \in Producers : LeavesCatch(t) =>
            /\ pc'[t] = "release_token"
            /\ errors' = errors + 1
            /\ UNCHANGED <<option_vars, _callback, _callback_mutex, _archive,
                           inits, pools, frames, fault, frame, callback, ref,
                           token, arg, it>>]_vars

\* After a suppressed fault, a later invoke_callback delivers a frame.
C5_Witness ==
    /\ errors >= 1
    /\ fault = NoFault
    /\ \E t \in Producers : pc[t] = "user_callback" /\ callback[t] # NoPool

\* Thread t starts alloc_frame, begin_callback, set_sensor or flush (the
\* calls that read _archive), whatever comes of it.
StartsArchiveCall(t) ==
    /\ pc[t] = "idle"
    /\ \/ pc'[t] \in {"set_sensor_loop", "flush_loop",
                      "wrong_api_call_sequence_exception"}
       \/ pc'[t] = "undefined" /\ fault'.op \in {"alloc_frame", "begin_callback"}

\* Thread t calls alloc_frame, whatever comes of it.
StartsAlloc(t) ==
    /\ pc[t] = "idle"
    /\ \/ pc'[t] = "wrong_api_call_sequence_exception"
       \/ pc'[t] = "undefined" /\ fault'.op = "alloc_frame"
       \/ frame[t] = NoFrame /\ frame'[t] # NoFrame

\* C6: alloc before init, and alloc, begin_callback, set_sensor or flush
\* after reset and before a new init, fail with a sequencing error.
C6_SequencingError ==
    [][\A t \in Threads :
          /\ (StartsAlloc(t) /\ BeforeInit)
                => pc'[t] = "wrong_api_call_sequence_exception"
          /\ (StartsArchiveCall(t) /\ AfterReset)
                => pc'[t] = "wrong_api_call_sequence_exception"]_vars

\* Thread t's alloc_frame throws / returns a frame.
AllocThrows(t) ==
    pc[t] = "idle" /\ pc'[t] = "wrong_api_call_sequence_exception"

AllocReturns(t) == frame[t] = NoFrame /\ frame'[t] # NoFrame

\* C7: once init has run, alloc throws only for kinds other than VIDEO and
\* COMPOSITE, and then changes neither the map, nor any pool or frame, nor
\* the callback target; a frame is allocated only as VIDEO or COMPOSITE, by
\* the pool the map holds for that kind, whose live count alone grows by one.
C7_UnsupportedKind ==
    [][\A t \in Producers : Ready =>
          /\ AllocThrows(t) =>
                /\ arg'[t] \notin Delivery
                /\ UNCHANGED <<_archive, pools, frames, _callback, frame>>
          /\ AllocReturns(t) =>
                /\ frames'[frame'[t]].type \in Delivery
                /\ frames'[frame'[t]].owner = _archive[frames'[frame'[t]].type]
                /\ pools' = [pools EXCEPT
                               ![frames'[frame'[t]].owner].live = @ + 1]
                /\ UNCHANGED <<_archive, _callback>>]_vars

\* alloc_frame(MOTION) has thrown on an initialised source one of whose
\* pools has a live frame.
C7_Witness ==
    /\ Ready
    /\ \E t \in Producers :
          pc[t] = "wrong_api_call_sequence_exception" /\ arg[t] = MOTION
    /\ \E f \in FrameIds :
          frames[f].state = "user" /\ pools[frames[f].owner].live = 1

\* v is outside [0, 32] or off the grid of step 1.
OutOfRange(v) == v < 0 \/ v > 32 * Scale \/ v % Scale # 0

\* C8: set(v) with v outside [0,32] or off step 1 fails with InvalidValue, and
\* query() still returns what it returned before the call.
C8_InvalidValueRejected ==
    (option.op = "set" /\ OutOfRange(option.value)) =>
        /\ option.res = "invalid_value_exception"
        /\ ToFloat(_max_publish_list_size) = ToFloat(option.before)

\* A value inside the range but off the step grid was refused.
C8_Witness ==
    /\ option.op = "set"
    /\ option.value = 1
    /\ option.res = "invalid_value_exception"
    /\ _max_publish_list_size = DefaultSize

\* C9: set(v) for an integer v in 0..32 succeeds and query() then returns v;
\* before any set, query() returns 16.
C9_SetThenQuery ==
    /\ (option.op = "set" /\ ~OutOfRange(option.value)) =>
          /\ option.res = "ok"
          /\ ToFloat(_max_publish_list_size) = option.value
    /\ option.op = "none" => ToFloat(_max_publish_list_size) = 16 * Scale
    /\ option.op = "query" => option.value = ToFloat(option.before)

\* set(32) succeeded and the cell holds 32.
C9_Witness ==
    /\ option.op = "set"
    /\ option.value = 32 * Scale
    /\ option.res = "ok"
    /\ _max_publish_list_size = 32

\* Thread t runs an iteration of init's loop.
InitIteration(t) == pc[t] = "init_loop" /\ it'[t] # it[t]

\* C10: init on a source whose pools exist fails with a sequencing error and
\* leaves the map, the pools and their frames as they are.
C10_ReinitFailsFast ==
    [][\A t \in Controllers :
          (InitIteration(t) /\ IsPool(_archive[it[t]])) =>
              /\ pc'[t] = "wrong_api_call_sequence_exception"
              /\ UNCHANGED <<_archive, pools, frames>>]_vars

\* Thread t takes the step: its position, loop key, argument or holders change.
Steps(t) ==
    <<pc[t], it[t], arg[t], frame[t], ref[t], callback[t], token[t]>>'
        # <<pc[t], it[t], arg[t], frame[t], ref[t], callback[t], token[t]>>

\* The step changes the callback target or the kind-to-pool map.
MutatesSlotOrMap == _callback' # _callback \/ _archive' # _archive

\* C11: every step that changes the callback target or the kind-to-pool map
\* is taken by a thread that holds _callback_mutex, whichever call it is part
\* of and whether or not init has run.
C11_MutationsUnderLock ==
    [][\A t \in Threads :
          (Steps(t) /\ MutatesSlotOrMap) => _callback_mutex = t]_vars

\* The step is a call of set() on the capacity option.
SetStep == option' # option /\ option'.op = "set"

\* C12: set() changes only the capacity cell: no pool, frame or holder
\* changes, however many frames are live.  The live count of a pool that
\* stays alive goes down only by one, in a step that is not a set() and in
\* which a handle to one of the pool's frames is released.
C12_LoweringEvictsNothing ==
    [][/\ SetStep => UNCHANGED source_vars
       /\ \A p \in PoolIds :
            (/\ pools[p].state = "alive"
             /\ pools'[p].state = "alive"
             /\ pools'[p].live < pools[p].live) =>
                /\ ~SetStep
                /\ pools'[p].live = pools[p].live - 1
                /\ \E f \in FrameIds :
                      /\ frames[f].owner = p
                      /\ frames[f].state \in {"held", "user"}
                      /\ frames'[f].state = "released"]_vars

\* A successful set() has left the capacity below the number of frames live
\* in a pool, and those frames are still live.
C12_Witness ==
    /\ option.op = "set"
    /\ option.res = "ok"
    /\ option.before > _max_publish_list_size
    /\ fault = NoFault
    /\ \E p \in PoolIds :
          /\ pools[p].state = "alive"
          /\ pools[p].live = MaxFrames
          /\ pools[p].live > _max_publish_list_size
          /\ \A f \in FrameIds :
                frames[f].owner = p /\ frames[f].state \in {"held", "user"}

\* Thread u is inside reset.
InReset(u) == pc[u] \in {"reset_callback", "reset_loop"}

\* Thread u's reset returns in this step.
ResetReturns(u) == pc[u] = "reset_loop" /\ pc'[u] = "idle"

\* Frame f is handed to a callback target in this step.
Delivers(f) == frames'[f].delivered # frames[f].delivered

\* C13: when every allocated frame is published and every callback returns
\* and releases its frame, a flush and a reset that have started come to an
\* end (short of undefined behaviour elsewhere); when reset returns, the
\* callback target is null and every map entry is cleared, its pool torn
\* down; and a frame is only ever delivered to the target the slot holds at
\* that moment, so none is delivered to a target that reset has cleared.
C13_FlushResetTerminate ==
    /\ \A u \in Controllers :
          /\ (pc[u] = "flush_loop") ~> (pc[u] = "idle" \/ ~Running)
          /\ InReset(u) ~> (pc[u] = "idle" \/ ~Running)
    /\ [][\A u \in Controllers : ResetReturns(u) =>
            /\ _callback' = NULL
            /\ _callback_mutex' = NoThread
            /\ \A k \in Kinds : _archive'[k] \in {ABSENT, NULL}
            /\ \A p \in PoolIds : pools'[p].state # "alive"]_vars
    /\ [][\A f \in FrameIds : Delivers(f) =>
            /\ _callback # NULL
            /\ frames'[f].delivered = Append(frames[f].delivered, _callback)]_vars

\* The end-to-end run is over: a VIDEO frame was delivered to a target and
\* released by the user, and a reset has returned since, leaving the slot and
\* the map cleared.
C13_Witness ==
    /\ fault = NoFault
    /\ \A t \in Threads : pc[t] = "idle"
    /\ _callback = NULL
    /\ \A k \in Delivery : _archive[k] = NULL
    /\ \E f \in FrameIds :
          /\ frames[f].type = VIDEO
          /\ frames[f].delivered # <<>>
          /\ frames[f].released_by = <<"user">>

\* Thread t is inside invoke_callback's if block, between taking the token
\* and giving it back.
InInvocation(t) ==
    pc[t] \in {"log_callback_start", "on_frame", "user_callback", "catch",
               "release_token"}

\* C14: from before the callback-start timestamp is recorded until after the
\* user callback has returned or faulted, invoke_callback holds a token of the
\* pool that owns the frame, so that pool's active-callback count is at least
\* 1 whenever the user callback runs; the timestamp is recorded under the
\* token, and the token is given back only at the end of the if block.
C14_TokenCoversCallback ==
    /\ [](\A t \in Producers : InInvocation(t) =>
            /\ callback[t] = frames[InFlightFrame(t)].owner
            /\ pools[callback[t]].state = "alive"
            /\ pools[callback[t]].active >= 1)
    /\ [][\A f \in FrameIds : (frames'[f].logged /\ ~frames[f].logged) =>
            /\ pools[frames[f].owner].active >= 1
            /\ frames[f].delivered = <<>>
            /\ \E t \in Producers :
                  InFlightFrame(t) = f /\ callback[t] = frames[f].owner]_vars
    /\ [][\A t \in Producers : (callback[t] # NoPool /\ callback'[t] = NoPool)
            => (pc[t] = "release_token" /\ pc'[t] = "release_frame")]_vars

\* A user callback runs on a COMPOSITE frame: the COMPOSITE pool counts one
\* active callback, the VIDEO pool none.
C14_Witness ==
    \E t \in Producers :
        /\ pc[t] = "user_callback"
        /\ fault = NoFault
        /\ frames[ref[t]].type = COMPOSITE
        /\ frames[ref[t]].owner = _archive[COMPOSITE]
        /\ pools[_archive[COMPOSITE]].active = 1
        /\ IsPool(_archive[VIDEO])
        /\ pools[_archive[VIDEO]].active = 0

\* Thread t's begin_callback() returns a holder in this step.
BeginCallbackReturns(t) == token[t] = NoPool /\ token'[t] # NoPool

\* C15: when a thread that is about to deliver a frame calls
\* begin_callback(), the token it gets is one of the pool that owns the
\* frame, and it is that pool's active-callback count that goes up.
C15_TokenFromFramesPool ==
    [][\A t \in Producers :
          (BeginCallbackReturns(t) /\ frame[t] # NoFrame) =>
              /\ token'[t] = frames[frame[t]].owner
              /\ pools'[frames[frame[t]].owner].active
                    = pools[frames[frame[t]].owner].active + 1]_vars

\* Thread t, idle with an empty frame_holder, takes the step.
StepsWithEmptyHandle(t) == pc[t] = "idle" /\ frame[t] = NoFrame /\ Steps(t)

\* C16: whatever a thread with an empty handle does, invoke_callback
\* included, it does not get into invoke_callback's if block: it takes no
\* invocation token, records no callback-start timestamp, hands no frame to
\* a target, logs no error, and leaves the callback target and the lock
\* alone; invoke_callback on an empty handle changes nothing at all.
C16_EmptyHandleNoOp ==
    [][\A t \in Producers : StepsWithEmptyHandle(t) =>
          /\ pc'[t] \notin {"log_callback_start", "on_frame", "user_callback",
                            "catch", "release_token", "release_frame"}
          /\ ~(pc'[t] = "undefined" /\ fault'.op = "invoke_callback")
          /\ callback'[t] = NoPool
          /\ ref'[t] = NoFrame
          /\ \A f \in FrameIds :
                /\ frames'[f].logged = frames[f].logged
                /\ frames'[f].delivered = frames[f].delivered
          /\ UNCHANGED <<_callback, _callback_mutex, errors>>]_vars

\* A thread with an empty handle is free to call invoke_callback while a
\* target is registered and a frame delivered earlier is still live.
C16_Witness ==
    /\ fault = NoFault
    /\ _callback # NULL
    /\ \E t \in Producers :
          /\ pc[t] = "idle"
          /\ frame[t] = NoFrame
          /\ callback[t] = NoPool
    /\ \E f \in FrameIds :
          /\ frames[f].state = "user"
          /\ pools[frames[f].owner].live = 1
          /\ pools[frames[f].owner].active = 0

\* Thread t takes a step of flush().
FlushSteps(t) == pc[t] = "flush_loop" /\ Steps(t)

\* The step handles one map entry / returns from flush().
FlushVisits(t) == pc[t] = "flush_loop" /\ it'[t] # it[t] /\ pc'[t] = "flush_loop"

FlushReturns(t) == pc[t] = "flush_loop" /\ pc'[t] = "idle"

\* C17: flush() starts at VIDEO and handles, at each step, the first entry it
\* has not handled yet, so every entry is handled once, VIDEO before
\* COMPOSITE, and flush() returns only when none is left; an entry that holds
\* a pool has that pool flushed (the step is taken once the pool has no live
\* frame), an entry that reset has cleared is passed over without a fault;
\* no step of flush() changes the callback target, the map or the capacity.
C17_FlushEachPoolOnce ==
    [][\A t \in Controllers :
          /\ (pc[t] = "idle" /\ pc'[t] = "flush_loop") => it'[t] = VIDEO
          /\ FlushSteps(t) =>
                /\ fault'.op # "flush"
                /\ UNCHANGED <<_callback, _archive, _max_publish_list_size>>
          /\ FlushVisits(t) =>
                /\ NextKey(it[t]) # 0
                /\ it'[t] = NextKey(it[t]) + 1
                /\ \A k \in Kinds :
                      (k >= it[t] /\ k < NextKey(it[t])) => _archive[k] = ABSENT
                /\ IsPool(_archive[NextKey(it[t])])
                      => pools[_archive[NextKey(it[t])]].live = 0
          /\ FlushReturns(t) =>
                \A k \in Kinds : k >= it[t] => _archive[k] = ABSENT]_vars

\* flush() has flushed the VIDEO pool and the COMPOSITE pool of a source
\* whose frame was delivered and released, and is about to return.
C17_Witness ==
    /\ fault = NoFault
    /\ Ready
    /\ \E u \in Controllers : pc[u] = "flush_loop" /\ it[u] = COMPOSITE + 1
    /\ \E f \in FrameIds :
          /\ frames[f].released_by = <<"user">>
          /\ frames[f].owner = _archive[frames[f].type]

\* The target that thread t's user callback runs in was destroyed under it.
TargetDestroyedUnder(t) == pc[t] = "undefined" /\ fault.op = "on_frame"

\* C18: a target that set_callback has replaced or reset has cleared is not
\* destroyed while an invoke_callback that called it is still running it:
\* the invocation keeps the target alive until the user callback returns.
C18_TargetOutlivesInvocation ==
    \A t \in Producers : ~TargetDestroyedUnder(t)

\* The frames of pool p that some handle still refers to.
LiveFrames(p) ==
    {f \in FrameIds : frames[f].owner = p /\ frames[f].state \in {"held", "user"}}

\* The frame_holder of some thread releases frame f in this step.
HolderReleases(f) ==
    frames'[f].released_by = Append(frames[f].released_by, "holder")

\* C19: when invoke_callback finds no callback target, it hands the frame to
\* no one and leaves it in its holder; the holder releases the frame when
\* invoke_callback returns, after the token has been given back, and the
\* owning pool's live count goes down by one.  No frame is lost: every frame
\* that is neither delivered nor released is in some thread's holder, and a
\* pool's live count is the number of its frames that a handle refers to.
C19_UndeliveredFrameReleased ==
    /\ [][\A t \in Producers :
            (pc[t] = "log_callback_start" /\ Steps(t) /\ _callback = NULL) =>
                /\ pc'[t] = "release_token"
                /\ frame'[t] = frame[t]
                /\ frame[t] # NoFrame
                /\ ref'[t] = NoFrame
                /\ frames'[frame[t]].delivered = <<>>
                /\ frames'[frame[t]].state = "held"]_vars
    /\ [][\A f \in FrameIds : HolderReleases(f) =>
            /\ frames[f].delivered = <<>>
            /\ frames[f].logged
            /\ frames'[f].state = "released"
            /\ pools'[frames[f].owner].live = pools[frames[f].owner].live - 1
            /\ \E t \in Producers :
                  /\ frame[t] = f
                  /\ pc[t] = "release_frame"
                  /\ pc'[t] = "idle"
                  /\ callback[t] = NoPool
                  /\ frame'[t] = NoFrame]_vars
    /\ [](\A f \in FrameIds :
            frames[f].state = "held" =>
                \E t \in Producers : frame[t] = f \/ ref[t] = f)
    /\ [](\A p \in PoolIds :
            pools[p].state = "alive" =>
                pools[p].live = Cardinality(LiveFrames(p)))

\* invoke_callback has returned from a frame it found no target for: the
\* frame was time-stamped, delivered to no one and released by the holder,
\* and its pool has no live frame again.
C19_Witness ==
    /\ fault = NoFault
    /\ _callback = NULL
    /\ \A t \in Threads : pc[t] = "idle"
    /\ \E f \in FrameIds :
          /\ frames[f].logged
          /\ frames[f].delivered = <<>>
          /\ frames[f].released_by = <<"holder">>
          /\ pools[frames[f].owner].state = "alive"
          /\ pools[frames[f].owner].live = 0
          /\ pools[frames[f].owner].active = 0

\* Thread u takes a step of init or reset.
LifecycleSteps(u) ==
    /\ Steps(u)
    /\ \/ pc[u] \in {"init_loop", "reset_callback", "reset_loop"}
       \/ pc'[u] \in {"init_loop", "reset_callback"}

\* C20: every pool that init has created holds the address of the source's
\* one capacity cell, so after a successful set(v) each of them observes v;
\* no step of init or reset writes the cell, so v is still there, and
\* observed by the new pools, after reset() and init().
C20_PoolsShareCapacityCell ==
    /\ [](\A p \in PoolIds : pools[p].state = "alive" =>
            /\ pools[p].max_frame_queue_size = CapacityCell
            /\ (option.op = "set" /\ option.res = "ok")
                  => ToFloat(archive_capacity(p)) = option.value)
    /\ [][\A u \in Controllers : LifecycleSteps(u) =>
            UNCHANGED <<_max_publish_list_size, option>>]_vars

\* After set(1), the pools of a second init both observe capacity 1.
C20_Witness ==
    /\ fault = NoFault
    /\ option.op = "set"
    /\ option.res = "ok"
    /\ option.value = Scale
    /\ inits = 2
    /\ \A u \in Controllers : pc[u] = "idle"
    /\ \A k \in Delivery :
          /\ _archive[k] = make_archive(k)
          /\ pools[_archive[k]].state = "alive"
          /\ archive_capacity(_archive[k]) = 1
====
